---- MODULE Spec2Model ----
(***************************************************************************)
(* State-machine model of the EngineUtilities smart pointers:              *)
(*   TSharedPointer / TWeakPointer  (include/Memory/TSharedPointer.h)      *)
(*   TUniquePtr                     (include/Memory/TUniquePtr.h)          *)
(*   TStaticPtr                     (TStaticPtr header)                    *)
(* Instances live in numbered slots; a slot is either dead (no instance)   *)
(* or holds the fields of one live instance.  Heap objects are numbered    *)
(* allocations that are never handed out twice (object identity, as seen   *)
(* by a destruction counter); count cells are heap ADDRESSES, which the    *)
(* allocator may hand out again once freed.                                *)
(***************************************************************************)
EXTENDS Integers, FiniteSets, Sequences, TLC

\* ---------------------------------------------------------------- bounds
NShared == 3        \* slots for TSharedPointer instances
NWeak == 1          \* slots for TWeakPointer instances
MaxObj == 2         \* objects ever allocated with new T
NCell == 2          \* heap addresses available for count cells
NLock == 2          \* of these, the slots used where lock() takes part
GarbageMax == 2     \* a freed int reads back as any value in 0..GarbageMax
NUnique == 3        \* slots for TUniquePtr instances
MaxUObj == 3        \* objects ever handed to a TUniquePtr
NStatic == 2        \* TStaticPtr<T> instances alive at once
MaxSObj == 4        \* objects ever handed to TStaticPtr<T>
NThread == 2        \* threads that copy and destroy owners of one object
MaxCount == 4       \* no copy is started once a cell reads this much

Null == 0           \* nullptr

SharedSlots == 1..NShared
LockSlots == 1..NLock
WeakSlots == 1..NWeak
Objs == 1..MaxObj
Cells == 1..NCell
Garbage == 0..GarbageMax
UniqueSlots == 1..NUnique
UObjs == 1..MaxUObj
SObjs == 1..MaxSObj
Threads == 1..NThread
Locals == {"own", "copy"}   \* each thread's instance and its by-value copy

VARIABLES
    sp,       \* sp[i]: TSharedPointer instance i: [live, ptr, rc]
    wp,       \* wp[j]: TWeakPointer instance j:   [live, ptr, rc]
    heap,     \* the free store as the shared/weak pointers see it
    up,       \* up[i]: TUniquePtr instance i: [live, ptr]
    uobj,     \* uobj[o]: state of object o handed to TUniquePtr
    instance, \* TStaticPtr<T>::instance, the static slot
    stLive,   \* number of live TStaticPtr<T> instances
    sobj,     \* sobj[o]: state of object o handed to TStaticPtr<T>
    last,     \* the operation executed last: [op, a, b, log]
    th,       \* th[t]: thread t inside an operation: [pc, tmp, d]
    tsp,      \* tsp[t][k]: TSharedPointer instance k of thread t
    torn      \* some thread ran while another was between read and write

sharedVars == <<sp, wp, heap>>
uniqueVars == <<up, uobj>>
staticVars == <<instance, stLive, sobj>>
threadVars == <<th, tsp, torn>>
vars == <<sp, wp, heap, up, uobj, instance, stLive, sobj, last, th, tsp, torn>>

Dead == [live |-> FALSE, ptr |-> Null, rc |-> Null]
Inst(p, c) == [live |-> TRUE, ptr |-> p, rc |-> c]
\* the last member function called, its arguments, and the statements on
\* the heap it executed, in program order
OpLog(o, x, y, l) == [op |-> o, a |-> x, b |-> y, log |-> l]
Op(o, x, y) == OpLog(o, x, y, <<>>)

\* ------------------------------------------------------------------ heap
\* objState[o]: "unalloc" (not yet returned by new), "live", "freed"
\*              (deleted once), "freed2" (deleted more than once).
\* cellLive[c]: address c currently holds an allocated int; cellVal[c] is
\*              its value (0 when the address is not allocated).
\* badFree:     delete was executed on a cell address that was not allocated.
\* uaf:         a cell address was read or written while not allocated.
EmptyHeap ==
    [objState |-> [o \in Objs |-> "unalloc"],
     cellLive |-> [c \in Cells |-> FALSE],
     cellVal  |-> [c \in Cells |-> 0],
     badFree  |-> FALSE,
     uaf      |-> FALSE]

\* the object a new-expression returns: allocations are numbered in order
HasFresh(st) == \E o \in DOMAIN st : st[o] = "unalloc"
Fresh(st) == CHOOSE o \in DOMAIN st :
                /\ st[o] = "unalloc"
                /\ \A q \in DOMAIN st : st[q] = "unalloc" => o <= q

\* delete p on an object table: delete nullptr does nothing
Delete(st, p) ==
    IF p = Null THEN st
    ELSE [st EXCEPT ![p] = IF @ = "live" THEN "freed" ELSE "freed2"]

\* new T(...)
NewObj(H, o) == [H EXCEPT !.objState[o] = "live"]

\* new int(1) at address c
NewCellZero(H, c) == [H EXCEPT !.cellLive[c] = TRUE, !.cellVal[c] = 0]
NewCell(H, c) == [H EXCEPT !.cellLive[c] = TRUE, !.cellVal[c] = 1]

\* *refCount: an allocated cell yields its value, a freed one yields g
ReadCell(H, c, g) == IF H.cellLive[c] THEN H.cellVal[c] ELSE g

\* *refCount = v: a store through a dangling pointer changes no live cell
WriteCell(H, c, v) ==
    IF H.cellLive[c] THEN [H EXCEPT !.cellVal[c] = v]
    ELSE [H EXCEPT !.uaf = TRUE]

\* delete ptr
DeleteObj(H, p) == [H EXCEPT !.objState = Delete(@, p)]

\* delete refCount
DeleteCell(H, c) ==
    IF H.cellLive[c] THEN [H EXCEPT !.cellLive[c] = FALSE, !.cellVal[c] = 0]
    ELSE [H EXCEPT !.badFree = TRUE]

\* if (refCount) ++(*refCount);
\* (the value read from a freed cell is irrelevant: the store is lost)
Inc(H, c) ==
    IF c = Null THEN H ELSE WriteCell(H, c, ReadCell(H, c, 0) + 1)

\* if (refCount && --(*refCount) == 0) { delete ptr; delete refCount; }
ReleaseKeepCell(H, p, c, g) ==
    IF c = Null THEN H
    ELSE LET v == ReadCell(H, c, g) - 1
             H1 == WriteCell(H, c, v)
         IN IF v = 0 THEN DeleteObj(H1, p) ELSE H1
Release(H, p, c, g) ==
    IF c = Null THEN H
    ELSE LET v == ReadCell(H, c, g) - 1
             H1 == WriteCell(H, c, v)
         IN IF v = 0 THEN DeleteCell(DeleteObj(H1, p), c) ELSE H1

\* the statements the release executes, in program order
ReleaseLogCellFirst(H, c, g) ==
    IF c = Null THEN <<>>
    ELSE IF ReadCell(H, c, g) - 1 = 0
         THEN <<"--*refCount", "delete refCount", "delete ptr">>
         ELSE <<"--*refCount">>
ReleaseLog(H, c, g) ==
    IF c = Null THEN <<>>
    ELSE IF ReadCell(H, c, g) - 1 = 0
         THEN <<"--*refCount", "delete ptr", "delete refCount">>
         ELSE <<"--*refCount">>

\* the statements of if (refCount) ++(*refCount);
IncLog(c) == IF c = Null THEN <<>> ELSE <<"++*refCount">>

\* ------------------------------------------------------- TSharedPointer
\* TSharedPointer()
CtorDefault(d) ==
    /\ ~sp[d].live
    /\ sp' = [sp EXCEPT ![d] = Inst(Null, Null)]
    /\ last' = Op("ctorDefault", d, 0)
    /\ UNCHANGED <<wp, heap, uniqueVars, staticVars, threadVars>>

\* explicit TSharedPointer(T* rawPtr), rawPtr a fresh object (MakeShared)
\* or nullptr; the count cell lands on any free address c.
CtorRaw(d, fresh, c) ==
    /\ ~sp[d].live
    /\ ~heap.cellLive[c]
    /\ fresh => HasFresh(heap.objState)
    /\ LET p == IF fresh THEN Fresh(heap.objState) ELSE Null
           H1 == IF fresh THEN NewObj(heap, p) ELSE heap
       IN /\ sp' = [sp EXCEPT ![d] = Inst(p, c)]
          /\ heap' = NewCell(H1, c)
    /\ last' = Op(IF fresh THEN "ctorRaw" ELSE "ctorRawNull", d, c)
    /\ UNCHANGED <<wp, uniqueVars, staticVars, threadVars>>

\* TSharedPointer(const TSharedPointer<T>& other)
CopyCtorNoInc(d, s) ==
    /\ ~sp[d].live
    /\ sp[s].live
    /\ sp' = [sp EXCEPT ![d] = Inst(sp[s].ptr, sp[s].rc)]
    /\ heap' = heap
    /\ last' = Op("copyCtor", d, s)
    /\ UNCHANGED <<wp, uniqueVars, staticVars, threadVars>>
CopyCtor(d, s) ==
    /\ ~sp[d].live
    /\ sp[s].live
    /\ sp' = [sp EXCEPT ![d] = Inst(sp[s].ptr, sp[s].rc)]
    /\ heap' = Inc(heap, sp[s].rc)
    /\ last' = Op("copyCtor", d, s)
    /\ UNCHANGED <<wp, uniqueVars, staticVars, threadVars>>

\* TSharedPointer(TSharedPointer<T>&& other)
MoveCtorCounting(d, s) ==
    /\ ~sp[d].live
    /\ sp[s].live
    /\ sp' = [sp EXCEPT ![d] = Inst(sp[s].ptr, sp[s].rc),
                        ![s] = Inst(Null, Null)]
    /\ heap' = Inc(heap, sp[s].rc)
    /\ last' = Op("moveCtor", d, s)
    /\ UNCHANGED <<wp, uniqueVars, staticVars, threadVars>>
MoveCtor(d, s) ==
    /\ ~sp[d].live
    /\ sp[s].live
    /\ sp' = [sp EXCEPT ![d] = Inst(sp[s].ptr, sp[s].rc),
                        ![s] = Inst(Null, Null)]
    /\ last' = Op("moveCtor", d, s)
    /\ UNCHANGED <<wp, heap, uniqueVars, staticVars, threadVars>>

\* operator=(const TSharedPointer<T>& other)
CopyAssignNoGuard(d, s, g) ==
    /\ sp[d].live
    /\ sp[s].live
    /\ LET H1 == Release(heap, sp[d].ptr, sp[d].rc, g)
       IN /\ sp' = [sp EXCEPT ![d] = Inst(sp[s].ptr, sp[s].rc)]
          /\ heap' = Inc(H1, sp[s].rc)
    /\ last' = Op("copyAssign", d, s)
    /\ UNCHANGED <<wp, uniqueVars, staticVars, threadVars>>
CopyAssignAdoptFirst(d, s, g) ==
    /\ sp[d].live
    /\ sp[s].live
    /\ IF d # s
       THEN LET H1 == Inc(heap, sp[s].rc)
            IN /\ sp' = [sp EXCEPT ![d] = Inst(sp[s].ptr, sp[s].rc)]
               /\ heap' = Release(H1, sp[s].ptr, sp[s].rc, g)
               /\ last' = OpLog("copyAssign", d, s,
                                <<"ptr = other.ptr">> \o IncLog(sp[s].rc)
                                \o ReleaseLog(H1, sp[s].rc, g))
       ELSE /\ UNCHANGED <<sp, heap>>
            /\ last' = Op("copyAssign", d, s)
    /\ UNCHANGED <<wp, uniqueVars, staticVars, threadVars>>
CopyAssign(d, s, g) ==
    /\ sp[d].live
    /\ sp[s].live
    /\ IF d # s
       THEN LET H1 == Release(heap, sp[d].ptr, sp[d].rc, g)
            IN /\ sp' = [sp EXCEPT ![d] = Inst(sp[s].ptr, sp[s].rc)]
               /\ heap' = Inc(H1, sp[s].rc)
               /\ last' = OpLog("copyAssign", d, s,
                                ReleaseLog(heap, sp[d].rc, g)
                                \o <<"ptr = other.ptr">> \o IncLog(sp[s].rc))
       ELSE /\ UNCHANGED <<sp, heap>>
            /\ last' = Op("copyAssign", d, s)
    /\ UNCHANGED <<wp, uniqueVars, staticVars, threadVars>>

\* operator=(TSharedPointer<T>&& other)
MoveAssignNoRelease(d, s, g) ==
    /\ sp[d].live
    /\ sp[s].live
    /\ IF d # s
       THEN /\ sp' = [sp EXCEPT ![d] = Inst(sp[s].ptr, sp[s].rc),
                                ![s] = Inst(Null, Null)]
            /\ heap' = heap
       ELSE UNCHANGED <<sp, heap>>
    /\ last' = Op("moveAssign", d, s)
    /\ UNCHANGED <<wp, uniqueVars, staticVars, threadVars>>
MoveAssign(d, s, g) ==
    /\ sp[d].live
    /\ sp[s].live
    /\ IF d # s
       THEN /\ sp' = [sp EXCEPT ![d] = Inst(sp[s].ptr, sp[s].rc),
                                ![s] = Inst(Null, Null)]
            /\ heap' = Release(heap, sp[d].ptr, sp[d].rc, g)
            /\ last' = OpLog("moveAssign", d, s,
                             ReleaseLog(heap, sp[d].rc, g)
                             \o <<"ptr = other.ptr", "other.ptr = nullptr">>)
       ELSE /\ UNCHANGED <<sp, heap>>
            /\ last' = Op("moveAssign", d, s)
    /\ UNCHANGED <<wp, uniqueVars, staticVars, threadVars>>

\* ~TSharedPointer()
Dtor(d, g) ==
    /\ sp[d].live
    /\ sp' = [sp EXCEPT ![d] = Dead]
    /\ heap' = Release(heap, sp[d].ptr, sp[d].rc, g)
    /\ last' = OpLog("dtor", d, 0, ReleaseLog(heap, sp[d].rc, g))
    /\ UNCHANGED <<wp, uniqueVars, staticVars, threadVars>>

\* a call f(owner) of a function taking TSharedPointer<T> by value, such as
\* BaseApp::updateMovement: the parameter d is copy-constructed from the
\* argument s at the call and destroyed at the return
PassByValueNoDtor(d, s, g) ==
    /\ ~sp[d].live
    /\ sp[s].live
    /\ heap' = Inc(heap, sp[s].rc)
    /\ last' = Op("passByValue", s, d)
    /\ UNCHANGED <<sp, wp, uniqueVars, staticVars, threadVars>>
PassByValue(d, s, g) ==
    /\ ~sp[d].live
    /\ sp[s].live
    /\ LET param == Inst(sp[s].ptr, sp[s].rc)
           H1 == Inc(heap, sp[s].rc)
       IN heap' = Release(H1, param.ptr, param.rc, g)
    /\ last' = Op("passByValue", s, d)
    /\ UNCHANGED <<sp, wp, uniqueVars, staticVars, threadVars>>

\* --------------------------------------------------------- TWeakPointer
\* TWeakPointer()
WeakCtorDefault(j) ==
    /\ ~wp[j].live
    /\ wp' = [wp EXCEPT ![j] = Inst(Null, Null)]
    /\ last' = Op("weakCtorDefault", j, 0)
    /\ UNCHANGED <<sp, heap, uniqueVars, staticVars, threadVars>>

\* TWeakPointer(const TSharedPointer<T>& sharedPtr)
WeakCtorCounting(j, s) ==
    /\ ~wp[j].live
    /\ sp[s].live
    /\ wp' = [wp EXCEPT ![j] = Inst(sp[s].ptr, sp[s].rc)]
    /\ heap' = Inc(heap, sp[s].rc)
    /\ last' = Op("weakCtor", j, s)
    /\ UNCHANGED <<sp, uniqueVars, staticVars, threadVars>>
WeakCtor(j, s) ==
    /\ ~wp[j].live
    /\ sp[s].live
    /\ wp' = [wp EXCEPT ![j] = Inst(sp[s].ptr, sp[s].rc)]
    /\ last' = Op("weakCtor", j, s)
    /\ UNCHANGED <<sp, heap, uniqueVars, staticVars, threadVars>>

\* ~TWeakPointer() (implicit: the class declares none)
WeakDtor(j) ==
    /\ wp[j].live
    /\ wp' = [wp EXCEPT ![j] = Dead]
    /\ last' = Op("weakDtor", j, 0)
    /\ UNCHANGED <<sp, heap, uniqueVars, staticVars, threadVars>>

\* TSharedPointer(T* rawPtr, int* existingRefCount): the fields and heap
\* after the constructor has run
Ctor2FieldsDropCell(p, c) == Inst(p, Null)
Ctor2Fields(p, c) == Inst(p, c)
Ctor2Heap(H, c) == Inc(H, c)

\* TWeakPointer::lock(), its result constructed in the dead slot d.
\* refCount && *refCount > 0 reads the cell: a freed cell yields g.
LockAlive(H, c, g) == c # Null /\ ReadCell(H, c, g) > 0
LockRawFallback(j, d, g) ==
    /\ wp[j].live
    /\ ~sp[d].live
    /\ LET c == wp[j].rc
           H0 == IF c # Null /\ ~heap.cellLive[c]
                 THEN [heap EXCEPT !.uaf = TRUE] ELSE heap
           free == {x \in Cells : ~heap.cellLive[x]}
           n == IF free = {} THEN Null ELSE CHOOSE x \in free : TRUE
       IN IF LockAlive(heap, c, g)
          THEN /\ sp' = [sp EXCEPT ![d] = Ctor2Fields(wp[j].ptr, c)]
               /\ heap' = Ctor2Heap(H0, c)
          ELSE /\ sp' = [sp EXCEPT ![d] = Inst(wp[j].ptr, n)]
               /\ heap' = IF n = Null THEN H0 ELSE NewCell(H0, n)
    /\ last' = Op("lock", j, d)
    /\ UNCHANGED <<wp, uniqueVars, staticVars, threadVars>>
Lock(j, d, g) ==
    /\ wp[j].live
    /\ ~sp[d].live
    /\ LET c == wp[j].rc
           H0 == IF c # Null /\ ~heap.cellLive[c]
                 THEN [heap EXCEPT !.uaf = TRUE] ELSE heap
       IN IF LockAlive(heap, c, g)
          THEN /\ sp' = [sp EXCEPT ![d] = Ctor2Fields(wp[j].ptr, c)]
               /\ heap' = Ctor2Heap(H0, c)
          ELSE /\ sp' = [sp EXCEPT ![d] = Inst(Null, Null)]
               /\ heap' = H0
    /\ last' = Op("lock", j, d)
    /\ UNCHANGED <<wp, uniqueVars, staticVars, threadVars>>

\* ----------------------------------------------------------- TUniquePtr
UDead == [live |-> FALSE, ptr |-> Null]
UInst(p) == [live |-> TRUE, ptr |-> p]

\* TUniquePtr()
UCtorDefault(i) ==
    /\ ~up[i].live
    /\ up' = [up EXCEPT ![i] = UInst(Null)]
    /\ last' = Op("uCtorDefault", i, 0)
    /\ UNCHANGED <<uobj, sharedVars, staticVars, threadVars>>

\* explicit TUniquePtr(T* rawPtr) on a fresh object (MakeUnique)
UCtorRaw(i) ==
    /\ ~up[i].live
    /\ HasFresh(uobj)
    /\ up' = [up EXCEPT ![i] = UInst(Fresh(uobj))]
    /\ uobj' = [uobj EXCEPT ![Fresh(uobj)] = "live"]
    /\ last' = Op("uCtorRaw", i, Fresh(uobj))
    /\ UNCHANGED <<sharedVars, staticVars, threadVars>>

\* TUniquePtr(TUniquePtr<T>&& other)
UMoveCtorKeepSource(d, s) ==
    /\ ~up[d].live
    /\ up[s].live
    /\ up' = [up EXCEPT ![d] = UInst(up[s].ptr)]
    /\ last' = Op("uMoveCtor", d, s)
    /\ UNCHANGED <<uobj, sharedVars, staticVars, threadVars>>
UMoveCtor(d, s) ==
    /\ ~up[d].live
    /\ up[s].live
    /\ up' = [up EXCEPT ![d] = UInst(up[s].ptr), ![s] = UInst(Null)]
    /\ last' = Op("uMoveCtor", d, s)
    /\ UNCHANGED <<uobj, sharedVars, staticVars, threadVars>>

\* operator=(TUniquePtr<T>&& other)
UMoveAssignKeepSource(d, s) ==
    /\ up[d].live
    /\ up[s].live
    /\ IF d # s
       THEN /\ uobj' = Delete(uobj, up[d].ptr)
            /\ up' = [up EXCEPT ![d] = UInst(up[s].ptr)]
       ELSE UNCHANGED <<up, uobj>>
    /\ last' = Op("uMoveAssign", d, s)
    /\ UNCHANGED <<sharedVars, staticVars, threadVars>>
UMoveAssignNoGuard(d, s) ==
    /\ up[d].live
    /\ up[s].live
    /\ uobj' = Delete(uobj, up[d].ptr)
    /\ up' = [up EXCEPT ![d] = UInst(up[s].ptr), ![s] = UInst(Null)]
    /\ last' = OpLog("uMoveAssign", d, s,
                     <<"delete ptr", "ptr = other.ptr", "other.ptr = nullptr">>)
    /\ UNCHANGED <<sharedVars, staticVars, threadVars>>
UMoveAssign(d, s) ==
    /\ up[d].live
    /\ up[s].live
    /\ IF d # s
       THEN /\ uobj' = Delete(uobj, up[d].ptr)
            /\ up' = [up EXCEPT ![d] = UInst(up[s].ptr), ![s] = UInst(Null)]
            /\ last' = OpLog("uMoveAssign", d, s,
                             <<"delete ptr", "ptr = other.ptr",
                               "other.ptr = nullptr">>)
       ELSE /\ UNCHANGED <<up, uobj>>
            /\ last' = Op("uMoveAssign", d, s)
    /\ UNCHANGED <<sharedVars, staticVars, threadVars>>

\* ~TUniquePtr()
UDtorNoDelete(i) ==
    /\ up[i].live
    /\ uobj' = uobj
    /\ up' = [up EXCEPT ![i] = UDead]
    /\ last' = Op("uDtor", i, 0)
    /\ UNCHANGED <<sharedVars, staticVars, threadVars>>
UDtor(i) ==
    /\ up[i].live
    /\ uobj' = Delete(uobj, up[i].ptr)
    /\ up' = [up EXCEPT ![i] = UDead]
    /\ last' = Op("uDtor", i, 0)
    /\ UNCHANGED <<sharedVars, staticVars, threadVars>>

\* T* release(): b records the pointer returned
UReleaseDeleting(i) ==
    /\ up[i].live
    /\ uobj' = Delete(uobj, up[i].ptr)
    /\ up' = [up EXCEPT ![i] = UInst(Null)]
    /\ last' = Op("uRelease", i, up[i].ptr)
    /\ UNCHANGED <<sharedVars, staticVars, threadVars>>
URelease(i) ==
    /\ up[i].live
    /\ up' = [up EXCEPT ![i] = UInst(Null)]
    /\ last' = Op("uRelease", i, up[i].ptr)
    /\ UNCHANGED <<uobj, sharedVars, staticVars, threadVars>>

\* void reset(T* rawPtr = nullptr), rawPtr a fresh object or nullptr
UResetNoDelete(i, fresh) ==
    /\ up[i].live
    /\ fresh => HasFresh(uobj)
    /\ LET p == IF fresh THEN Fresh(uobj) ELSE Null
       IN /\ uobj' = IF fresh THEN [uobj EXCEPT ![p] = "live"] ELSE uobj
          /\ up' = [up EXCEPT ![i] = UInst(p)]
          /\ last' = Op(IF fresh THEN "uReset" ELSE "uResetNull", i, p)
    /\ UNCHANGED <<sharedVars, staticVars, threadVars>>
UReset(i, fresh) ==
    /\ up[i].live
    /\ fresh => HasFresh(uobj)
    /\ LET p == IF fresh THEN Fresh(uobj) ELSE Null
           st == Delete(uobj, up[i].ptr)
       IN /\ uobj' = IF fresh THEN [st EXCEPT ![p] = "live"] ELSE st
          /\ up' = [up EXCEPT ![i] = UInst(p)]
          /\ last' = Op(IF fresh THEN "uReset" ELSE "uResetNull", i, p)
    /\ UNCHANGED <<sharedVars, staticVars, threadVars>>

\* reset(rawPtr) with rawPtr the pointer the instance already holds
UResetHeld(i) ==
    /\ up[i].live
    /\ up[i].ptr # Null
    /\ LET p == up[i].ptr
       IN /\ uobj' = Delete(uobj, up[i].ptr)
          /\ up' = [up EXCEPT ![i] = UInst(p)]
          /\ last' = Op("uResetHeld", i, p)
    /\ UNCHANGED <<sharedVars, staticVars, threadVars>>

\* T* get() const / bool isNull() const
UGet(i) == up[i].ptr
UIsNull(i) == up[i].ptr = Null

\* ----------------------------------------------------------- TStaticPtr
\* if (instance != nullptr) delete instance;
SDeleteInstance(st, inst) == IF inst # Null THEN Delete(st, inst) ELSE st

\* TStaticPtr() = default
SCtorDefault ==
    /\ stLive < NStatic
    /\ stLive' = stLive + 1
    /\ last' = Op("sCtorDefault", 0, 0)
    /\ UNCHANGED <<instance, sobj, sharedVars, uniqueVars, threadVars>>

\* explicit TStaticPtr(T* rawPtr), rawPtr a fresh object or nullptr
SCtorRaw(fresh) ==
    /\ stLive < NStatic
    /\ fresh => HasFresh(sobj)
    /\ LET p == IF fresh THEN Fresh(sobj) ELSE Null
           st == SDeleteInstance(sobj, instance)
       IN /\ sobj' = IF fresh THEN [st EXCEPT ![p] = "live"] ELSE st
          /\ instance' = p
          /\ last' = Op("sCtorRaw", p, 0)
    /\ stLive' = stLive + 1
    /\ UNCHANGED <<sharedVars, uniqueVars, threadVars>>

\* ~TStaticPtr()
SDtorLastOnly ==
    /\ stLive > 0
    /\ stLive' = stLive - 1
    /\ sobj' = IF stLive = 1 THEN SDeleteInstance(sobj, instance) ELSE sobj
    /\ instance' = IF stLive = 1 THEN Null ELSE instance
    /\ last' = Op("sDtor", 0, 0)
    /\ UNCHANGED <<sharedVars, uniqueVars, threadVars>>
SDtor ==
    /\ stLive > 0
    /\ stLive' = stLive - 1
    /\ sobj' = SDeleteInstance(sobj, instance)
    /\ instance' = Null
    /\ last' = Op("sDtor", 0, 0)
    /\ UNCHANGED <<sharedVars, uniqueVars, threadVars>>

\* static T* get() { return instance; }
StaticGet == instance

\* static bool isNull() { return instance == nullptr; }
StaticIsNullInverted == instance # Null
StaticIsNull == instance = Null

\* a call of get(): a records the pointer returned
SGet ==
    /\ last' = Op("sGet", StaticGet, 0)
    /\ UNCHANGED <<staticVars, sharedVars, uniqueVars, threadVars>>

\* a call of isNull(): a records the result (1 = true)
SIsNull ==
    /\ last' = Op("sIsNull", IF StaticIsNull THEN 1 ELSE 0, 0)
    /\ UNCHANGED <<staticVars, sharedVars, uniqueVars, threadVars>>

\* static void reset(T* rawPtr = nullptr), rawPtr a fresh object or nullptr
SResetNoDelete(fresh) ==
    /\ fresh => HasFresh(sobj)
    /\ LET p == IF fresh THEN Fresh(sobj) ELSE Null
       IN /\ sobj' = IF fresh THEN [sobj EXCEPT ![p] = "live"] ELSE sobj
          /\ instance' = p
          /\ last' = Op(IF fresh THEN "sReset" ELSE "sResetNull", p, 0)
    /\ UNCHANGED <<stLive, sharedVars, uniqueVars, threadVars>>
SReset(fresh) ==
    /\ fresh => HasFresh(sobj)
    /\ LET p == IF fresh THEN Fresh(sobj) ELSE Null
           st == SDeleteInstance(sobj, instance)
       IN /\ sobj' = IF fresh THEN [st EXCEPT ![p] = "live"] ELSE st
          /\ instance' = p
          /\ last' = Op(IF fresh THEN "sReset" ELSE "sResetNull", p, 0)
    /\ UNCHANGED <<stLive, sharedVars, uniqueVars, threadVars>>

\* ------------------------------------------- TSharedPointer in threads
\* Each thread copies and destroys its own instances; only the count cell
\* and the object are shared.  ++(*refCount) and --(*refCount) are a read
\* of the cell followed by a write, and another thread may run in between.
Idle == [pc |-> "idle", tmp |-> 0, d |-> "none"]
Others(t) == \E u \in Threads \ {t} : th[u].pc # "idle"

\* the main thread makes the object, hands every thread a copy and drops
\* its own instance, all before the threads run
TStart ==
    /\ \A t \in Threads : th[t] = Idle /\ \A k \in Locals : ~tsp[t][k].live
    /\ heap = EmptyHeap
    /\ LET p == Fresh(heap.objState)
           c == 1
       IN /\ heap' = WriteCell(NewCell(NewObj(heap, p), c), c, NThread)
          /\ tsp' = [t \in Threads |->
                       [k \in Locals |-> IF k = "own" THEN Inst(p, c) ELSE Dead]]
    /\ last' = Op("tStart", 0, 0)
    /\ UNCHANGED <<sp, wp, th, torn, uniqueVars, staticVars>>

\* TSharedPointer(const TSharedPointer<T>& other), up to the read of
\* *refCount by ++(*refCount)
TCopyRead(t, d, s, g) ==
    /\ th[t] = Idle
    /\ tsp[t][s].live /\ ~tsp[t][d].live
    /\ LET c == tsp[t][s].rc
           v == ReadCell(heap, c, g)
       IN /\ v < MaxCount
          /\ tsp' = [tsp EXCEPT ![t][d] = Inst(tsp[t][s].ptr, c)]
          /\ th' = [th EXCEPT ![t] = [pc |-> "copy", tmp |-> v, d |-> d]]
          /\ heap' = IF heap.cellLive[c] THEN heap
                     ELSE [heap EXCEPT !.uaf = TRUE]
    /\ torn' = (torn \/ Others(t))
    /\ last' = Op("tCopyRead", t, 0)
    /\ UNCHANGED <<sp, wp, uniqueVars, staticVars>>

\* the write of ++(*refCount)
TCopyWriteStale(t) ==
    /\ th[t].pc = "copy"
    /\ heap' = WriteCell(heap, tsp[t][th[t].d].rc, th[t].tmp)
    /\ th' = [th EXCEPT ![t] = Idle]
    /\ torn' = (torn \/ Others(t))
    /\ last' = Op("tCopyWrite", t, 0)
    /\ UNCHANGED <<sp, wp, tsp, uniqueVars, staticVars>>
TCopyWrite(t) ==
    /\ th[t].pc = "copy"
    /\ heap' = WriteCell(heap, tsp[t][th[t].d].rc, th[t].tmp + 1)
    /\ th' = [th EXCEPT ![t] = Idle]
    /\ torn' = (torn \/ Others(t))
    /\ last' = Op("tCopyWrite", t, 0)
    /\ UNCHANGED <<sp, wp, tsp, uniqueVars, staticVars>>

\* ~TSharedPointer(), up to the read of *refCount by --(*refCount)
TDtorRead(t, d, g) ==
    /\ th[t] = Idle
    /\ tsp[t][d].live
    /\ LET c == tsp[t][d].rc
       IN /\ th' = [th EXCEPT ![t] = [pc |-> "dtor",
                                      tmp |-> ReadCell(heap, c, g), d |-> d]]
          /\ heap' = IF heap.cellLive[c] THEN heap
                     ELSE [heap EXCEPT !.uaf = TRUE]
    /\ torn' = (torn \/ Others(t))
    /\ last' = Op("tDtorRead", t, 0)
    /\ UNCHANGED <<sp, wp, tsp, uniqueVars, staticVars>>

\* the write of --(*refCount), the test == 0 and the two deletes
TDtorWrite(t) ==
    /\ th[t].pc = "dtor"
    /\ LET d == th[t].d
           c == tsp[t][d].rc
           v == th[t].tmp - 1
           H1 == WriteCell(heap, c, v)
       IN /\ heap' = IF v = 0
                     THEN DeleteCell(DeleteObj(H1, tsp[t][d].ptr), c)
                     ELSE H1
          /\ tsp' = [tsp EXCEPT ![t][d] = Dead]
    /\ th' = [th EXCEPT ![t] = Idle]
    /\ torn' = (torn \/ Others(t))
    /\ last' = Op("tDtorWrite", t, 0)
    /\ UNCHANGED <<sp, wp, uniqueVars, staticVars>>

\* reset(rawPtr) with rawPtr the pointer the slot already holds
SResetHeld ==
    /\ instance # Null
    /\ LET p == instance
       IN /\ sobj' = SDeleteInstance(sobj, instance)
          /\ instance' = p
          /\ last' = Op("sResetHeld", p, 0)
    /\ UNCHANGED <<stLive, sharedVars, uniqueVars, threadVars>>

\* ------------------------------------------------------- specifications
\* what a read through cell pointer c may yield when c is freed; an
\* allocated (or null) c is not subject to any choice
GarbageFor(c) == IF c # Null /\ ~heap.cellLive[c] THEN Garbage ELSE {0}

Init ==
    /\ sp = [i \in SharedSlots |-> Dead]
    /\ wp = [j \in WeakSlots |-> Dead]
    /\ heap = EmptyHeap
    /\ up = [i \in UniqueSlots |-> UDead]
    /\ uobj = [o \in UObjs |-> "unalloc"]
    /\ instance = Null
    /\ stLive = 0
    /\ sobj = [o \in SObjs |-> "unalloc"]
    /\ last = Op("init", 0, 0)
    /\ th = [t \in Threads |-> Idle]
    /\ tsp = [t \in Threads |-> [k \in Locals |-> Dead]]
    /\ torn = FALSE

\* the TSharedPointer operations on the instances in the slots S
NextOwners(S) ==
    \/ \E d \in S : CtorDefault(d)
    \/ \E d \in S, fresh \in BOOLEAN, c \in Cells : CtorRaw(d, fresh, c)
    \/ \E d, s \in S : CopyCtor(d, s)
    \/ \E d, s \in S : MoveCtor(d, s)
    \/ \E d, s \in S : \E g \in GarbageFor(sp[d].rc) : CopyAssign(d, s, g)
    \/ \E d, s \in S : \E g \in GarbageFor(sp[d].rc) : MoveAssign(d, s, g)
    \/ \E d \in S : \E g \in GarbageFor(sp[d].rc) : Dtor(d, g)

NextShared == NextOwners(SharedSlots)

SpecShared == Init /\ [][NextShared]_vars

\* the owners together with TWeakPointer and its lock()
Next ==
    \/ NextOwners(LockSlots)
    \/ \E j \in WeakSlots : WeakCtorDefault(j)
    \/ \E j \in WeakSlots, s \in LockSlots : WeakCtor(j, s)
    \/ \E j \in WeakSlots : WeakDtor(j)
    \/ \E j \in WeakSlots, d \in LockSlots :
          \E g \in GarbageFor(wp[j].rc) : Lock(j, d, g)

Spec == Init /\ [][Next]_vars

\* owners that are made, copied and destroyed while TWeakPointers that are
\* never locked observe them
NextObserved ==
    \/ \E d \in LockSlots, fresh \in BOOLEAN, c \in Cells : CtorRaw(d, fresh, c)
    \/ \E d, s \in LockSlots : CopyCtor(d, s)
    \/ \E d \in LockSlots : \E g \in GarbageFor(sp[d].rc) : Dtor(d, g)
    \/ \E j \in WeakSlots : WeakCtorDefault(j)
    \/ \E j \in WeakSlots, s \in LockSlots : WeakCtor(j, s)
    \/ \E j \in WeakSlots : WeakDtor(j)

SpecObserved == Init /\ [][NextObserved]_vars

\* owners made, copied, destroyed and passed by value
NextCall ==
    \/ \E d \in SharedSlots : CtorDefault(d)
    \/ \E d \in SharedSlots, fresh \in BOOLEAN, c \in Cells :
          CtorRaw(d, fresh, c)
    \/ \E d, s \in SharedSlots : CopyCtor(d, s)
    \/ \E d \in SharedSlots : \E g \in GarbageFor(sp[d].rc) : Dtor(d, g)
    \/ \E d, s \in SharedSlots :
          \E g \in GarbageFor(sp[s].rc) : PassByValue(d, s, g)

SpecCall == Init /\ [][NextCall]_vars

\* reset called with any pointer the caller can have: a new object,
\* nullptr, or the pointer get() returns
NextReset ==
    \/ \E i \in UniqueSlots : UCtorRaw(i)
    \/ \E i \in UniqueSlots : UDtor(i)
    \/ \E i \in UniqueSlots, fresh \in BOOLEAN : UReset(i, fresh)
    \/ \E i \in UniqueSlots : UResetHeld(i)
    \/ \E fresh \in BOOLEAN : SReset(fresh)
    \/ SResetHeld

SpecReset == Init /\ [][NextReset]_vars

\* threads over one shared object
LocalCell(t, k) == tsp[t][k].rc
NextThreads ==
    \/ TStart
    \/ \E t \in Threads, d, s \in Locals :
          \E g \in GarbageFor(LocalCell(t, s)) : TCopyRead(t, d, s, g)
    \/ \E t \in Threads : TCopyWrite(t)
    \/ \E t \in Threads, d \in Locals :
          \E g \in GarbageFor(LocalCell(t, d)) : TDtorRead(t, d, g)
    \/ \E t \in Threads : TDtorWrite(t)

SpecThreads == Init /\ [][NextThreads]_vars

\* TUniquePtr
NextUnique ==
    \/ \E i \in UniqueSlots : UCtorDefault(i)
    \/ \E i \in UniqueSlots : UCtorRaw(i)
    \/ \E d, s \in UniqueSlots : UMoveCtor(d, s)
    \/ \E d, s \in UniqueSlots : UMoveAssign(d, s)
    \/ \E i \in UniqueSlots : UDtor(i)
    \/ \E i \in UniqueSlots : URelease(i)
    \/ \E i \in UniqueSlots, fresh \in BOOLEAN : UReset(i, fresh)

SpecUnique == Init /\ [][NextUnique]_vars

\* TStaticPtr<T>
NextStatic ==
    \/ SCtorDefault
    \/ \E fresh \in BOOLEAN : SCtorRaw(fresh)
    \/ SDtor
    \/ SGet
    \/ SIsNull
    \/ \E fresh \in BOOLEAN : SReset(fresh)

SpecStatic == Init /\ [][NextStatic]_vars

\* ================================================================ claims
Empty == Inst(Null, Null)
Occupied(x) == x.live /\ x.ptr # Null /\ x.rc # Null
OwnersOfCell(c) == {i \in SharedSlots : sp[i].live /\ sp[i].rc = c}
OwnersOfObj(o) == {i \in SharedSlots : sp[i].live /\ sp[i].ptr = o}

\* C1: in every reachable state (lock included) each live count cell holds
\* exactly the number of live TSharedPointer instances whose refCount
\* points to it.
C1_CountEqualsOwners ==
    \A c \in Cells :
        heap.cellLive[c] => heap.cellVal[c] = Cardinality(OwnersOfCell(c))

\* C2: under copy/move/assign/destroy of owners, the object and its cell
\* are freed exactly once, in the step that takes the count from 1 to 0:
\* never while an owner still targets them, never twice, and never left
\* allocated without an owner.
C2_NoPrematureFree ==
    \A i \in SharedSlots :
        sp[i].live /\ sp[i].rc # Null =>
            /\ heap.cellLive[sp[i].rc]
            /\ sp[i].ptr # Null => heap.objState[sp[i].ptr] = "live"
C2_NoDoubleFree ==
    /\ ~heap.badFree
    /\ \A o \in Objs : heap.objState[o] # "freed2"
C2_NoLeak ==
    /\ \A o \in Objs : heap.objState[o] = "live" => OwnersOfObj(o) # {}
    /\ \A c \in Cells : heap.cellLive[c] => OwnersOfCell(c) # {}
C2_FreedAtZero ==
    \A o \in Objs :
        heap.objState[o] = "live" /\ heap'.objState[o] # "live" =>
            \E c \in Cells :
                /\ OwnersOfObj(o) = OwnersOfCell(c)
                /\ heap.cellLive[c] /\ heap.cellVal[c] = 1
                /\ ~heap'.cellLive[c]
                /\ heap'.objState[o] = "freed"
C2_FreedExactlyOnce ==
    /\ [](C2_NoPrematureFree /\ C2_NoDoubleFree /\ C2_NoLeak)
    /\ [][C2_FreedAtZero]_vars
C2_Witness ==
    /\ last.op = "dtor"
    /\ \A i \in SharedSlots : ~sp[i].live
    /\ \E o \in Objs : heap.objState[o] = "freed"
    /\ \A c \in Cells : ~heap.cellLive[c]

\* C3: a TWeakPointer made from an owner of some object, locked when no
\* live TSharedPointer references that object any more, yields an empty
\* TSharedPointer.
C3_LockAfterLastOwnerIsEmpty ==
    [][last'.op = "lock" =>
          LET j == last'.a
              d == last'.b
          IN (wp[j].ptr # Null /\ OwnersOfObj(wp[j].ptr) = {})
             => sp'[d] = Empty]_vars

C5_SelfAssignIsNoOp ==
    [][(last'.op \in {"copyAssign", "moveAssign"} /\ last'.a = last'.b)
          => sp' = sp /\ heap' = heap]_vars
C5_Witness ==
    /\ last.op = "copyAssign"
    /\ last.a = last.b
    /\ Occupied(sp[last.a])
    /\ heap.cellVal[sp[last.a].rc] = 1
    /\ \E i \in SharedSlots : sp[i].live /\ sp[i] = Empty

\* C6: every live TSharedPointer holds either both a null object pointer
\* and a null cell pointer, or both non-null.
C6_PairedFields ==
    \A i \in SharedSlots :
        sp[i].live => (sp[i].ptr = Null <=> sp[i].rc = Null)

\* C7: assigning an empty TSharedPointer to an occupied one lowers the
\* object's count by one and keeps the object when other owners remain;
\* when the destination was the last owner the object and cell are freed,
\* the object exactly once.  The destination ends empty either way.
C7_AssignEmptyReleasesOne ==
    [][last'.op \in {"moveAssign", "copyAssign"} =>
          LET d == last'.a
              s == last'.b
              c == sp[d].rc
              o == sp[d].ptr
          IN (d # s /\ sp[s] = Empty /\ Occupied(sp[d])) =>
                /\ sp'[d] = Empty
                /\ heap.cellVal[c] > 1 =>
                      /\ heap'.cellLive[c]
                      /\ heap'.cellVal[c] = heap.cellVal[c] - 1
                      /\ heap'.objState = heap.objState
                      /\ heap'.objState[o] = "live"
                /\ heap.cellVal[c] = 1 =>
                      /\ ~heap'.cellLive[c]
                      /\ heap'.objState[o] = "freed"
                      /\ \A q \in Objs \ {o} :
                            heap'.objState[q] = heap.objState[q]]_vars
C7_Witness ==
    /\ last.op = "moveAssign"
    /\ last.a # last.b
    /\ \A i \in SharedSlots : sp[i].live => sp[i] = Empty
    /\ Cardinality({i \in SharedSlots : sp[i].live}) = NShared
    /\ \E o \in Objs : heap.objState[o] = "freed"
    /\ \A c \in Cells : ~heap.cellLive[c]

\* C8: move-constructing or move-assigning a TUniquePtr from a distinct
\* source leaves the source empty and the destination holding the object
\* the source held, and the move does not free that object.
C8_UniqueMoveTransfers ==
    [][last'.op \in {"uMoveCtor", "uMoveAssign"} =>
          LET d == last'.a
              s == last'.b
          IN d # s =>
                /\ up'[s] = UInst(Null)
                /\ up'[d] = UInst(UGet(s))
                /\ UGet(s) # Null => uobj'[UGet(s)] = uobj[UGet(s)]]_vars
C8_Witness ==
    /\ last.op = "uMoveAssign"
    /\ last.a # last.b
    /\ up[last.a].ptr # Null
    /\ uobj[up[last.a].ptr] = "live"
    /\ up[last.b].ptr = Null
    /\ \E o \in UObjs : uobj[o] = "freed"

\* C9: at most one live TUniquePtr holds a pointer to any given object.
C9_UniqueHolder ==
    \A i, k \in UniqueSlots :
        (i # k /\ up[i].live /\ up[k].live /\ up[i].ptr # Null)
        => up[i].ptr # up[k].ptr
C9_Witness ==
    /\ last.op \in {"uMoveCtor", "uMoveAssign"}
    /\ last.a # last.b
    /\ Cardinality({i \in UniqueSlots : up[i].live /\ up[i].ptr # Null}) >= 2

\* C10: TStaticPtr<T>::reset(newObj) frees the object held in the slot (if
\* any) exactly once and get() then returns newObj; reset() frees the
\* object held (if any) and isNull() is then true and get() returns null.
C10_StaticReset ==
    [][(last'.op \in {"sReset", "sResetNull"}) =>
          /\ \A o \in SObjs :
                sobj'[o] = IF o = instance /\ sobj[o] = "live" THEN "freed"
                           ELSE IF last'.op = "sReset" /\ o = Fresh(sobj)
                                THEN "live" ELSE sobj[o]
          /\ last'.op = "sReset" =>
                StaticGet' = Fresh(sobj) /\ ~StaticIsNull'
          /\ last'.op = "sResetNull" =>
                StaticIsNull' /\ StaticGet' = Null]_vars
C10_Witness ==
    /\ last.op = "sReset"
    /\ instance # Null /\ sobj[instance] = "live"
    /\ Cardinality({o \in SObjs : sobj[o] = "freed"}) >= 1

\* C11: the TStaticPtr<T> slot is empty before any call and only reset
\* changes it: no constructor, destructor, get or isNull changes the slot
\* or frees the object held.
C11_OnlyResetChangesSlot ==
    /\ (last.op = "init" => instance = Null)
    /\ [][last'.op \notin {"sReset", "sResetNull"} =>
             /\ instance' = instance
             /\ \A o \in SObjs : sobj[o] = "live" => sobj'[o] = "live"]_vars

\* C12: TWeakPointer(sharedPtr) copies the owner's (ptr, refCount) pair
\* and changes no cell; destroying a TWeakPointer changes no cell and
\* frees nothing; so with observers present an object is still freed in
\* the step that destroys its last owner and none stays allocated unowned.
C12_WeakCtorCopiesPair ==
    last'.op = "weakCtor" =>
        LET j == last'.a
            s == last'.b
        IN /\ wp'[j] = Inst(sp[s].ptr, sp[s].rc)
           /\ heap' = heap /\ sp' = sp
C12_WeakDtorFreesNothing ==
    last'.op = "weakDtor" => heap' = heap /\ sp' = sp
C12_LastOwnerFrees ==
    last'.op = "dtor" =>
        LET d == last'.a
        IN (Occupied(sp[d]) /\ OwnersOfCell(sp[d].rc) = {d}) =>
              /\ heap'.objState[sp[d].ptr] = "freed"
              /\ ~heap'.cellLive[sp[d].rc]
C12_ObserversDoNotOwn ==
    /\ [](\A o \in Objs : heap.objState[o] = "live" => OwnersOfObj(o) # {})
    /\ [][C12_WeakCtorCopiesPair /\ C12_WeakDtorFreesNothing
            /\ C12_LastOwnerFrees]_vars
C12_Witness ==
    /\ last.op = "dtor"
    /\ \E j \in WeakSlots :
          /\ Occupied(wp[j])
          /\ heap.objState[wp[j].ptr] = "freed"
          /\ ~heap.cellLive[wp[j].rc]

\* C13: TUniquePtr::release() returns the pointer held before the call,
\* leaves the instance empty and frees nothing; an object that no live
\* TUniquePtr holds (a released one) is not freed by any later destroy or
\* reset.
UHolders(o) == {k \in UniqueSlots : up[k].live /\ up[k].ptr = o}
C13_ReleaseStep ==
    last'.op = "uRelease" =>
        LET i == last'.a
        IN /\ last'.b = UGet(i)
           /\ up'[i] = UInst(Null)
           /\ uobj' = uobj
C13_ReleasedStaysAllocated ==
    \A o \in UObjs :
        (uobj[o] = "live" /\ UHolders(o) = {}) => uobj'[o] = "live"
C13_ReleaseGivesUpOwnership ==
    [][C13_ReleaseStep /\ C13_ReleasedStaysAllocated]_vars
C13_Witness ==
    /\ last.op \in {"uDtor", "uResetNull"}
    /\ \E o \in UObjs : uobj[o] = "live" /\ UHolders(o) = {}

\* C14: TUniquePtr::reset(rawObject) frees the object the instance owns
\* (if any) exactly once and the instance then holds rawObject; reset()
\* frees the object owned and leaves the instance empty, isNull() true.
C14_UniqueReset ==
    [][last'.op \in {"uReset", "uResetNull"} =>
          LET i == last'.a
          IN /\ \A o \in UObjs :
                   uobj'[o] = IF o = UGet(i) THEN "freed"
                              ELSE IF last'.op = "uReset" /\ o = Fresh(uobj)
                                   THEN "live" ELSE uobj[o]
             /\ UGet(i) # Null => uobj[UGet(i)] = "live"
             /\ last'.op = "uReset" => up'[i] = UInst(Fresh(uobj))
             /\ last'.op = "uResetNull" => up'[i] = UInst(Null)]_vars
C14_Witness ==
    /\ last.op = "uReset"
    /\ up[last.a].ptr = last.b
    /\ uobj[last.b] = "live"
    /\ \E o \in UObjs : o < last.b /\ uobj[o] = "freed"

\* C15: TStaticPtr<T>::get() returns the pointer in the slot (null when
\* none is set), isNull() is true exactly when the slot holds no object,
\* and neither call changes the slot or frees anything.
C15_StaticObservers ==
    [][last'.op \in {"sGet", "sIsNull"} =>
          /\ last'.op = "sGet" => last'.a = instance
          /\ last'.op = "sIsNull" => (last'.a = 1 <=> instance = Null)
          /\ instance' = instance /\ sobj' = sobj /\ stLive' = stLive]_vars
C15_Witness ==
    /\ last.op = "sIsNull"
    /\ last.a = 0
    /\ instance # Null /\ sobj[instance] = "live"

\* C16: copy-assigning from a distinct source first releases what the
\* destination holds (its cell decremented; object and cell freed when the
\* cell reaches 0) and only then adopts the source's pair and increments
\* the source's cell; when both already share a cell the heap is unchanged,
\* and when the source is empty the destination ends empty.
C16_ReleaseOrders ==
    {<<>>, <<"--*refCount">>,
     <<"--*refCount", "delete ptr", "delete refCount">>}
C16_CopyAssignOrders ==
    {r \o <<"ptr = other.ptr">> \o i :
        r \in C16_ReleaseOrders, i \in {<<>>, <<"++*refCount">>}}
C16_Order ==
    LET l == last'.log
    IN /\ l \in C16_CopyAssignOrders
       /\ l[1] = "--*refCount" <=> sp[last'.a].rc # Null
       /\ l[Len(l)] = "++*refCount" <=> sp[last'.b].rc # Null
C16_Effect ==
    LET d == last'.a
        s == last'.b
        c1 == sp[d].rc
        c2 == sp[s].rc
        freeing == c1 # Null /\ c1 # c2 /\ heap.cellVal[c1] = 1
    IN /\ sp' = [sp EXCEPT ![d] = Inst(sp[s].ptr, c2)]
       /\ sp[s] = Empty => sp'[d] = Empty
       /\ c1 = c2 => heap' = heap
       /\ \A c \in Cells :
             IF c = c1 /\ c # c2
             THEN IF freeing THEN ~heap'.cellLive[c]
                  ELSE /\ heap'.cellLive[c]
                       /\ heap'.cellVal[c] = heap.cellVal[c] - 1
             ELSE IF c = c2 /\ c # c1
             THEN /\ heap'.cellLive[c]
                  /\ heap'.cellVal[c] = heap.cellVal[c] + 1
             ELSE /\ heap'.cellLive[c] = heap.cellLive[c]
                  /\ heap'.cellVal[c] = heap.cellVal[c]
       /\ \A o \in Objs :
             heap'.objState[o] = IF freeing /\ o = sp[d].ptr THEN "freed"
                                 ELSE heap.objState[o]
       /\ (Len(last'.log) >= 2 /\ last'.log[2] = "delete ptr") <=> freeing
C16_CopyAssignReleasesThenAdopts ==
    [][(last'.op = "copyAssign" /\ last'.a # last'.b)
          => C16_Order /\ C16_Effect]_vars
C16_Witness ==
    /\ last.op = "copyAssign"
    /\ last.a # last.b
    /\ last.log = <<"--*refCount", "delete ptr", "delete refCount",
                    "ptr = other.ptr", "++*refCount">>
    /\ Occupied(sp[last.a])
    /\ sp[last.a] = sp[last.b]
    /\ heap.cellVal[sp[last.a].rc] = 2
    /\ \E o \in Objs : heap.objState[o] = "freed"

\* C17: move-constructing or move-assigning from a distinct source gives
\* the destination the source's (ptr, refCount) pair, leaves the source
\* empty and does not change the value of the source's count cell;
\* move-assign first releases what the destination held.
C17_Transfer ==
    /\ sp'[last'.a] = Inst(sp[last'.b].ptr, sp[last'.b].rc)
    /\ sp'[last'.b] = Empty
    /\ \A i \in SharedSlots : i \notin {last'.a, last'.b} => sp'[i] = sp[i]
C17_MoveAssignOrders ==
    {r \o <<"ptr = other.ptr", "other.ptr = nullptr">> :
        r \in C16_ReleaseOrders}
C17_ReleaseFirst ==
    LET l == last'.log
        d == last'.a
        c1 == sp[d].rc
        freeing == c1 # Null /\ heap.cellVal[c1] = 1
    IN last'.op = "moveAssign" =>
          /\ l \in C17_MoveAssignOrders
          /\ l[1] = "--*refCount" <=> c1 # Null
          /\ l[2] = "delete ptr" <=> freeing
          /\ freeing => /\ ~heap'.cellLive[c1]
                        /\ sp[d].ptr # Null =>
                              heap'.objState[sp[d].ptr] = "freed"
          /\ (c1 # Null /\ ~freeing) =>
                /\ heap'.cellLive[c1]
                /\ heap'.cellVal[c1] = heap.cellVal[c1] - 1
C17_SourceCellUntouched ==
    LET c2 == sp[last'.b].rc
    IN c2 # Null => /\ heap'.cellLive[c2]
                    /\ heap'.cellVal[c2] = heap.cellVal[c2]
C17_MoveKeepsSourceCount ==
    [][(last'.op \in {"moveCtor", "moveAssign"} /\ last'.a # last'.b)
          => C17_Transfer /\ C17_ReleaseFirst /\ C17_SourceCellUntouched]_vars

\* C17 as amended: the same, except that the source's count cell drops by
\* one in a move-assign whose destination held that same cell (the
\* release of the destination decrements it); it is unchanged otherwise,
\* and no move ever increments a cell.
C17_SourceCellOnlyReleased ==
    LET c2 == sp[last'.b].rc
        shared == last'.op = "moveAssign" /\ sp[last'.a].rc = c2
    IN /\ c2 # Null =>
             /\ heap'.cellLive[c2]
             /\ heap'.cellVal[c2] =
                   IF shared THEN heap.cellVal[c2] - 1 ELSE heap.cellVal[c2]
       /\ last'.op = "moveCtor" => heap' = heap /\ last'.log = <<>>
       /\ \A c \in Cells :
             heap'.cellLive[c] => heap'.cellVal[c] <= heap.cellVal[c]
C17_MoveTransfersPair ==
    [][(last'.op \in {"moveCtor", "moveAssign"} /\ last'.a # last'.b)
          => C17_Transfer /\ C17_ReleaseFirst
             /\ C17_SourceCellOnlyReleased]_vars
C17_Witness ==
    /\ last.op = "moveAssign"
    /\ last.a # last.b
    /\ last.log = <<"--*refCount", "ptr = other.ptr", "other.ptr = nullptr">>
    /\ Occupied(sp[last.a])
    /\ sp[last.b] = Empty
    /\ heap.cellVal[sp[last.a].rc] = 1
    /\ \A c \in Cells : heap.cellLive[c] => c = sp[last.a].rc

\* C18: whenever the destructor, copy-assign or move-assign of a
\* TSharedPointer brings a count cell to zero it frees the managed object
\* first and the count cell second (its statements are one of the orders
\* listed, in each of which "delete ptr" comes right before "delete
\* refCount"); destroying an empty TSharedPointer frees nothing and
\* touches no cell.
C18_ZeroedCells ==
    {c \in Cells : heap.cellLive[c] /\ ~heap'.cellLive[c]}
C18_Orders ==
    C16_ReleaseOrders \cup C16_CopyAssignOrders \cup C17_MoveAssignOrders
C18_ObjectThenCell ==
    LET l == last'.log
        d == last'.a
    IN /\ l \in C18_Orders
       /\ C18_ZeroedCells # {} <=>
             (Len(l) >= 3 /\ l[3] = "delete refCount")
       /\ C18_ZeroedCells # {} =>
             /\ C18_ZeroedCells = {sp[d].rc}
             /\ heap.cellVal[sp[d].rc] = 1
             /\ sp[d].ptr # Null => /\ heap.objState[sp[d].ptr] = "live"
                                    /\ heap'.objState[sp[d].ptr] = "freed"
C18_EmptyDtor ==
    (last'.op = "dtor" /\ sp[last'.a] = Empty) =>
        heap' = heap /\ last'.log = <<>>
C18_FreeObjectBeforeCell ==
    [][last'.op \in {"dtor", "copyAssign", "moveAssign"}
          => C18_ObjectThenCell /\ C18_EmptyDtor]_vars
C18_Witness ==
    /\ last.op = "copyAssign"
    /\ last.log = <<"--*refCount", "delete ptr", "delete refCount",
                    "ptr = other.ptr">>
    /\ sp[last.a] = Empty
    /\ \E o \in Objs : heap.objState[o] = "freed"

\* C19: TSharedPointer(rawPtr) (MakeShared included) allocates a count
\* cell that was not allocated before, so distinct from every live cell,
\* gives it the value 1 and stores rawPtr; no other cell changes; the
\* default constructor allocates no cell.
C19_RawCtor ==
    last'.op \in {"ctorRaw", "ctorRawNull"} =>
        LET d == last'.a
            c == last'.b
            p == IF last'.op = "ctorRaw" THEN Fresh(heap.objState) ELSE Null
        IN /\ c # Null /\ ~heap.cellLive[c]
           /\ \A i \in SharedSlots : sp[i].live => sp[i].rc # c
           /\ heap'.cellLive[c] /\ heap'.cellVal[c] = 1
           /\ \A x \in Cells \ {c} :
                 /\ heap'.cellLive[x] = heap.cellLive[x]
                 /\ heap'.cellVal[x] = heap.cellVal[x]
           /\ sp' = [sp EXCEPT ![d] = Inst(p, c)]
           /\ p # Null => heap'.objState[p] = "live"
C19_DefaultCtor ==
    last'.op = "ctorDefault" =>
        heap' = heap /\ sp' = [sp EXCEPT ![last'.a] = Empty]
C19_FreshCellOfOne == [][C19_RawCtor /\ C19_DefaultCtor]_vars
C19_Witness ==
    /\ last.op = "ctorRaw"
    /\ Occupied(sp[last.a])
    /\ sp[last.a].rc = last.b
    /\ heap.cellVal[last.b] = 1
    /\ \E c \in Cells \ {last.b} : heap.cellLive[c] /\ heap.cellVal[c] = 2

\* C20: copy-constructing from an occupied source gives the new instance
\* the source's object pointer and count cell and increases that cell by
\* exactly one, the source unchanged; copy-constructing from an empty
\* source gives an empty instance and changes no cell.
C20_CopyCtor ==
    [][last'.op = "copyCtor" =>
          LET d == last'.a
              s == last'.b
              c == sp[s].rc
          IN /\ sp' = [sp EXCEPT ![d] = Inst(sp[s].ptr, c)]
             /\ Occupied(sp[s]) =>
                   /\ heap' = [heap EXCEPT !.cellVal[c] = heap.cellVal[c] + 1]
                   /\ heap.cellLive[c] /\ heap'.cellLive[c]
             /\ sp[s] = Empty => sp'[d] = Empty /\ heap' = heap]_vars
C20_Witness ==
    /\ last.op = "copyCtor"
    /\ Occupied(sp[last.a])
    /\ sp[last.a] = sp[last.b]
    /\ heap.cellVal[sp[last.a].rc] = 3

\* C21: move-assigning a TUniquePtr from a distinct source frees the object
\* the destination held (if any) exactly once, before it adopts the
\* source's pointer; move-assigning a TUniquePtr to itself frees nothing
\* and leaves its pointer unchanged.
C21_Distinct ==
    LET d == last'.a
        s == last'.b
    IN d # s =>
          /\ last'.log = <<"delete ptr", "ptr = other.ptr",
                           "other.ptr = nullptr">>
          /\ UGet(d) # Null => uobj[UGet(d)] = "live"
          /\ \A o \in UObjs :
                uobj'[o] = IF o = UGet(d) THEN "freed" ELSE uobj[o]
          /\ up'[d] = UInst(UGet(s))
C21_Self ==
    last'.a = last'.b => up' = up /\ uobj' = uobj /\ last'.log = <<>>
C21_UniqueMoveAssign ==
    [][last'.op = "uMoveAssign" => C21_Distinct /\ C21_Self]_vars
C21_Witness ==
    /\ last.op = "uMoveAssign"
    /\ last.a = last.b
    /\ up[last.a].ptr # Null
    /\ uobj[up[last.a].ptr] = "live"
    /\ \E o \in UObjs : uobj[o] = "freed"

\* C22: a default-constructed TWeakPointer, and one constructed from an
\* empty TSharedPointer, resolve through lock() to an empty TSharedPointer,
\* and that lock() changes no count cell.
C22_EmptyObserverLocksEmpty ==
    [][last'.op = "lock" =>
          LET j == last'.a
              d == last'.b
          IN wp[j] = Empty =>
                /\ sp'[d] = Empty
                /\ heap' = heap
                /\ wp' = wp]_vars
C22_Witness ==
    /\ last.op = "lock"
    /\ wp[last.a] = Empty
    /\ sp[last.b] = Empty
    /\ \E c \in Cells : heap.cellLive[c] /\ heap.cellVal[c] = 1

\* C23: lock() on a TWeakPointer whose pair is both null or both non-null
\* (copied from a TSharedPointer of that shape) never revives with a null
\* cell: the TSharedPointer it returns is either fully empty or has a
\* non-null object pointer and a non-null cell.
C23_LockReturnsPaired ==
    [][last'.op = "lock" =>
          LET j == last'.a
              d == last'.b
          IN (wp[j].ptr = Null <=> wp[j].rc = Null) =>
                /\ sp'[d] = Empty \/ Occupied(sp'[d])
                /\ sp'[d] # Empty => sp'[d] = Inst(wp[j].ptr, wp[j].rc)]_vars
C23_Witness ==
    /\ last.op = "lock"
    /\ Occupied(wp[last.a])
    /\ sp[last.b] = Inst(wp[last.a].ptr, wp[last.a].rc)
    /\ heap.objState[wp[last.a].ptr] = "live"
    /\ heap.cellLive[wp[last.a].rc] /\ heap.cellVal[wp[last.a].rc] = 2

ThreadOwners(c) ==
    {x \in Threads \X Locals : tsp[x[1]][x[2]].live /\ tsp[x[1]][x[2]].rc = c}
Quiet == \A t \in Threads : th[t] = Idle
C25_AtomicKeepsCount ==
    (Quiet /\ ~torn) =>
        /\ \A c \in Cells :
              heap.cellLive[c] =>
                 /\ heap.cellVal[c] = Cardinality(ThreadOwners(c))
                 /\ ThreadOwners(c) # {}
        /\ \A t \in Threads, k \in Locals :
              tsp[t][k].live =>
                 /\ heap.cellLive[tsp[t][k].rc]
                 /\ heap.objState[tsp[t][k].ptr] = "live"
        /\ \A o \in Objs :
              heap.objState[o] = "live" =>
                 \E t \in Threads, k \in Locals :
                    tsp[t][k].live /\ tsp[t][k].ptr = o
        /\ ~heap.uaf /\ ~heap.badFree
C25_Witness ==
    /\ Quiet /\ torn
    /\ \E t \in Threads, k \in Locals :
          /\ tsp[t][k].live
          /\ heap.objState[tsp[t][k].ptr] = "freed"
          /\ ~heap.uaf

\* C26: no TSharedPointer or TWeakPointer operation reads or writes a
\* count cell after it was freed; lock() called after the last owner of
\* the object was destroyed does not read the freed cell.
C26_NoUseAfterFree == ~heap.uaf

\* C27: a non-empty TSharedPointer returned by lock() never targets an
\* object that was freed, whatever owners were made and destroyed before,
\* also when a later allocation reuses the freed cell's address.
C27_LockNeverReturnsFreed ==
    [][last'.op = "lock" =>
          LET d == last'.b
          IN sp'[d].ptr # Null =>
                heap'.objState[sp'[d].ptr] = "live"]_vars

\* C28: while a TSharedPointer obtained from lock() (or a copy of it) is
\* live the object it targets is not freed, and the object is freed in the
\* step that destroys the last owner targeting it.
C28_OwnedIsAlive ==
    \A i \in SharedSlots :
        (sp[i].live /\ sp[i].ptr # Null) =>
            heap.objState[sp[i].ptr] = "live"
C28_LastOwnerFrees ==
    last'.op = "dtor" =>
        LET d == last'.a
            o == sp[d].ptr
        IN (o # Null /\ OwnersOfObj(o) = {d}) =>
              heap'.objState[o] = "freed"
C28_LockedOwnerKeepsObject ==
    /\ []C28_OwnedIsAlive
    /\ [][C28_LastOwnerFrees]_vars

\* C29: copy-constructing a TSharedPointer from an occupied owner and then
\* destroying the copy (a TSharedPointer passed by value) leaves the count
\* cell at its prior value, frees nothing and leaves the original owner's
\* pointer and cell unchanged.
C29_WholeCall ==
    last'.op = "passByValue" =>
        LET s == last'.a
            c == sp[s].rc
        IN Occupied(sp[s]) =>
              /\ heap'.cellLive[c] /\ heap.cellLive[c]
              /\ heap'.cellVal[c] = heap.cellVal[c]
              /\ heap'.objState = heap.objState
              /\ heap' = heap
              /\ sp'[s] = sp[s]
\* the same seen as two calls: the destructor of a copy, run right after
\* the copy constructor made it, takes back the one the copy added
C29_DtorUndoesCopy ==
    (last'.op = "dtor" /\ last.op = "copyCtor" /\ last'.a = last.a
        /\ Occupied(sp[last.b])) =>
        LET s == last.b
            c == sp[s].rc
        IN /\ heap'.cellLive[c]
           /\ heap'.cellVal[c] = heap.cellVal[c] - 1
           /\ heap'.cellVal[c] >= 1
           /\ heap'.objState = heap.objState
           /\ sp'[s] = sp[s]
C29_CopyThenDestroyRestores ==
    [][C29_WholeCall /\ C29_DtorUndoesCopy]_vars
C29_Witness ==
    /\ last.op = "passByValue"
    /\ Occupied(sp[last.a])
    /\ heap.cellVal[sp[last.a].rc] = 1
    /\ heap.objState[sp[last.a].ptr] = "live"
    /\ \E o \in Objs : heap.objState[o] = "freed"

\* C30: after TUniquePtr::reset(p) or TStaticPtr<T>::reset(p) the pointer
\* held is p and p is not a freed object, for every p, the pointer already
\* held (p = get()) included.
C30_UniqueResetHoldsLive ==
    last'.op \in {"uReset", "uResetNull", "uResetHeld"} =>
        /\ up'[last'.a].ptr = last'.b
        /\ last'.b # Null => uobj'[last'.b] = "live"
C30_StaticResetHoldsLive ==
    last'.op \in {"sReset", "sResetNull", "sResetHeld"} =>
        /\ instance' = last'.a
        /\ last'.a # Null => sobj'[last'.a] = "live"
C30_ResetHoldsLiveObject ==
    [][C30_UniqueResetHoldsLive /\ C30_StaticResetHoldsLive]_vars

\* C31: under construction from a fresh object, moves, reset with a fresh
\* object (or none), release and destruction of TUniquePtr instances, an
\* object a TUniquePtr adopted is freed at most once and only by the
\* destructor, reset or move-assign of the instance holding it; it stops
\* being held while alive only through release(); destroying an empty
\* TUniquePtr frees nothing.
C31_HeldIsAliveNeverTwice ==
    /\ \A o \in UObjs : uobj[o] # "freed2"
    /\ \A i \in UniqueSlots :
          (up[i].live /\ up[i].ptr # Null) => uobj[up[i].ptr] = "live"
C31_FreedByHolder ==
    \A o \in UObjs :
        (uobj[o] = "live" /\ uobj'[o] # "live") =>
            /\ uobj'[o] = "freed"
            /\ last'.op \in {"uDtor", "uReset", "uResetNull", "uMoveAssign"}
            /\ up[last'.a].ptr = o
C31_HeldUntilFreedOrReleased ==
    \A o \in UObjs :
        (uobj[o] = "live" /\ UHolders(o) # {}) =>
            \/ uobj'[o] = "live" /\ Cardinality(UHolders(o)') = 1
            \/ uobj'[o] = "freed" /\ UHolders(o)' = {}
            \/ /\ last'.op = "uRelease" /\ last'.b = o
               /\ uobj'[o] = "live" /\ UHolders(o)' = {}
C31_EmptyDtor ==
    (last'.op = "uDtor" /\ up[last'.a].ptr = Null) => uobj' = uobj
C31_UniqueFreesOnce ==
    /\ []C31_HeldIsAliveNeverTwice
    /\ [][C31_FreedByHolder /\ C31_HeldUntilFreedOrReleased
            /\ C31_EmptyDtor]_vars
C31_Witness ==
    /\ last.op = "uDtor"
    /\ \A i \in UniqueSlots : ~up[i].live
    /\ \A o \in UObjs : uobj[o] = "freed"

====
